---- MODULE Spec2Model ----
(***************************************************************************)
(* name-tagger: a prefix tree of dictionary names (suffix_tree::SuffixTree) *)
(* and the cursor-set scan find_matches that reports every span of a line  *)
(* spelling a terminal path, as driven by main.                            *)
(*                                                                         *)
(* Spec     : the tree and one find_matches scan, one loop iteration per   *)
(*            step.                                                        *)
(* SpecFair : Spec with the loop of find_matches taken fairly.              *)
(* SpecMain : main, one dictionary line or one stdin line per step.        *)
(* SpecNorm : normalize applied to one string.                             *)
(***************************************************************************)
EXTENDS Integers, Sequences, FiniteSets, TLC

VARIABLES
    dict,            \* the SuffixTree: an arena of nodes, node 1 is the root
    log,             \* history: the insert calls made so far, in order
    pc,              \* where the program stands
    input,           \* find_matches: the symbols handed to the scan
    offset,          \* find_matches: number of symbols consumed so far
    cands,           \* find_matches: Vec<Candidate>
    matches,         \* find_matches: Vec<Match>
    name_only,       \* main: args.flag_whole_name
    fuzzy,           \* main: args.flag_insensitive
    overflow_checks, \* main: whether the build traps integer overflow
    dict_lines,      \* main: the dictionary lines consumed so far, as split
    line,            \* main: the stdin line being tagged
    out              \* main: the records printed for that line

vars == <<dict, log, pc, input, offset, cands, matches,
          name_only, fuzzy, overflow_checks, dict_lines, line, out>>

scanVars == <<input, offset, cands, matches>>
mainVars == <<name_only, fuzzy, overflow_checks, dict_lines, line, out>>

----------------------------------------------------------------------------
(* Bounds *)

MaxInserts == 2      \* insert calls in one run of Spec
MaxSeqLen == 2       \* length of an inserted sequence in Spec
MaxInputLen == 3     \* length of a scanned sequence in Spec

MaxEntries == 2      \* dictionary lines in one run of SpecMain
MaxKeyLen == 2       \* length of a dictionary key in SpecMain
MaxLineLen == 3      \* length of a stdin line in SpecMain

MaxNormLen == 2      \* length of a string handed to normalize in SpecNorm

\* usize is 32 or 64 bits wide on the targets of rustc; the model keeps a
\* narrower one that TLC's integers can hold: only the wrap below zero
\* matters, and no offset of a bounded line comes near 2^UsizeBits
UsizeBits == 16

Symbols == {"a", "b"}    \* the element type E in Spec

\* the characters of dictionary keys and stdin lines in SpecMain: the
\* sentinel, a letter in both cases, a punctuation mark other than '.'
Chars == {" ", "a", "A", "-"}

SeqsUpTo(S, n) == UNION {[1..k -> S] : k \in 0..n}

----------------------------------------------------------------------------
(* Option<T> *)

None == [some |-> FALSE]

Some(x) == [some |-> TRUE, v |-> x]

----------------------------------------------------------------------------
(* suffix_tree::SuffixTree *)

\* SuffixTree::new(): no suffixes, no value
SuffixTreeNew == [suffixes |-> <<>>, value |-> None]

Root == 1

\* mutant of IsTerminal: a node with children counts as terminal too
IsTerminalOrInner(node) == node.value.some \/ DOMAIN node.suffixes # {}

\* SuffixTree::is_terminal
IsTerminal(node) == node.value.some

\* the None arm of insert's match: add an empty child under symbol i of the
\* node at ptr; the child is the last node of the arena
InsertChild(tree, ptr, i) ==
    Append([tree EXCEPT ![ptr].suffixes = (i :> (Len(tree) + 1)) @@ @],
           SuffixTreeNew)

\* mutant of SetValue: the first value written at a node is kept
SetValueOnce(tree, ptr, value) ==
    IF tree[ptr].value.some THEN tree ELSE [tree EXCEPT ![ptr].value = Some(value)]

\* the final assignment of insert: (*tree).value = Some(value)
SetValue(tree, ptr, value) == [tree EXCEPT ![ptr].value = Some(value)]

RECURSIVE InsertFrom(_, _, _, _)
\* the loop of insert, from the node at ptr with el still to walk
InsertFrom(tree, ptr, el, value) ==
    IF el = <<>>
    THEN SetValue(tree, ptr, value)
    ELSE LET i == Head(el) IN
         IF i \in DOMAIN tree[ptr].suffixes
         THEN InsertFrom(tree, tree[ptr].suffixes[i], Tail(el), value)
         ELSE InsertFrom(InsertChild(tree, ptr, i), Len(tree) + 1, Tail(el), value)

\* SuffixTree::insert
Insert(tree, el, value) == InsertFrom(tree, Root, el, value)

----------------------------------------------------------------------------
(* suffix_tree::Cursor *)

\* Cursor::new
CursorNew == [cursor |-> Root, path |-> <<>>]

\* mutant of Go: the symbol is not pushed on the path
GoNoPush(tree, cur, el) ==
    IF el \in DOMAIN tree[cur.cursor].suffixes
    THEN Some([cursor |-> tree[cur.cursor].suffixes[el], path |-> cur.path])
    ELSE None

\* Cursor::go
Go(tree, cur, el) ==
    IF el \in DOMAIN tree[cur.cursor].suffixes
    THEN Some([cursor |-> tree[cur.cursor].suffixes[el],
               path |-> Append(cur.path, el)])
    ELSE None

\* Cursor::get
Get(tree, cur) == tree[cur.cursor]

----------------------------------------------------------------------------
(* find_matches *)

\* mutant of Spawn: a candidate is started only while none is live
SpawnIfIdle(cs, off) ==
    IF cs = <<>> THEN <<[cursor |-> CursorNew, start |-> off]>> ELSE cs

\* mutant of Spawn: the new candidate goes to the front of the vector
SpawnFront(cs, off) == <<[cursor |-> CursorNew, start |-> off]>> \o cs

\* cands.push(Candidate {cursor: Cursor::new(dict), start: offset})
Spawn(cs, off) == Append(cs, [cursor |-> CursorNew, start |-> off])

RECURSIVE AdvanceRestart(_, _, _)
\* mutant of Advance: a candidate that fails to advance is restarted from
\* the root on the same symbol, keeping its start
AdvanceRestart(tree, cs, ch) ==
    IF cs = <<>>
    THEN <<>>
    ELSE LET next == Go(tree, Head(cs).cursor, ch)
             again == Go(tree, CursorNew, ch)
             rest == AdvanceRestart(tree, Tail(cs), ch)
         IN  IF next.some
             THEN <<[cursor |-> next.v, start |-> Head(cs).start]>> \o rest
             ELSE IF again.some
                  THEN <<[cursor |-> again.v, start |-> Head(cs).start]>> \o rest
                  ELSE rest

RECURSIVE AdvanceKeep(_, _, _)
\* mutant of Advance: a candidate that fails to advance skips the symbol
\* and stays live
AdvanceKeep(tree, cs, ch) ==
    IF cs = <<>>
    THEN <<>>
    ELSE LET next == Go(tree, Head(cs).cursor, ch)
             rest == AdvanceKeep(tree, Tail(cs), ch)
         IN  IF next.some
             THEN <<[cursor |-> next.v, start |-> Head(cs).start]>> \o rest
             ELSE <<Head(cs)>> \o rest

RECURSIVE Advance(_, _, _)
\* cands.into_iter().flat_map(|cand| match cand.cursor.clone().go(ch) ...)
Advance(tree, cs, ch) ==
    IF cs = <<>>
    THEN <<>>
    ELSE LET next == Go(tree, Head(cs).cursor, ch)
             rest == Advance(tree, Tail(cs), ch)
         IN  IF next.some
             THEN <<[cursor |-> next.v, start |-> Head(cs).start]>> \o rest
             ELSE rest

\* mutant of MatchOf: the end offset is the offset of the last symbol
MatchOfEndAtOffset(cand, off) ==
    [start |-> cand.start,
     end   |-> off,
     seq   |-> cand.cursor.path,
     node  |-> cand.cursor.cursor]

\* the Match pushed for a candidate that sits on a terminal node
MatchOf(cand, off) ==
    [start |-> cand.start,
     end   |-> 1 + off,
     seq   |-> cand.cursor.path,
     node  |-> cand.cursor.cursor]

RECURSIVE HitsFirstOnly(_, _, _)
\* mutant of Hits: only the first (longest) terminal candidate is reported
HitsFirstOnly(tree, cs, off) ==
    IF cs = <<>>
    THEN <<>>
    ELSE IF IsTerminal(Get(tree, Head(cs).cursor))
         THEN <<MatchOf(Head(cs), off)>>
         ELSE HitsFirstOnly(tree, Tail(cs), off)

RECURSIVE Hits(_, _, _)
\* for cand in cands.iter() { if cand.cursor.get().is_terminal() { push } }
Hits(tree, cs, off) ==
    IF cs = <<>>
    THEN <<>>
    ELSE (IF IsTerminal(Get(tree, Head(cs).cursor))
          THEN <<MatchOf(Head(cs), off)>>
          ELSE <<>>) \o Hits(tree, Tail(cs), off)

\* one iteration of the for loop, on symbol ch at position off
LoopBody(tree, st, off, ch) ==
    LET live == Advance(tree, Spawn(st.cands, off), ch)
    IN  [cands |-> live, matches |-> st.matches \o Hits(tree, live, off)]

RECURSIVE ScanFrom(_, _, _, _)
ScanFrom(tree, st, inp, off) ==
    IF off = Len(inp)
    THEN st
    ELSE ScanFrom(tree, LoopBody(tree, st, off, inp[off + 1]), inp, off + 1)

\* find_matches, start to return
FindMatches(tree, inp) ==
    ScanFrom(tree, [cands |-> <<>>, matches |-> <<>>], inp, 0).matches

----------------------------------------------------------------------------
(* main: the normalization and the two tables it builds and scans with *)

\* the characters of is_punctuation's punct string
Punct == {"/", "|", "-", ".", "\\", ":", ",", ";", "+", "(", ")"}

\* is_punctuation
IsPunctuation(ch) == ch \in Punct

\* mutant of ToLowercase: the case of a letter is swapped
ToLowercaseSwap(ch) ==
    IF ch = "A" THEN <<"a">> ELSE IF ch = "a" THEN <<"A">> ELSE <<ch>>

\* char::to_lowercase, an iterator over the lower-case form of ch; the
\* lower-case form of U+0130 (capital I with dot above) is two characters,
\* i and the combining dot U+0307
ToLowercase(ch) ==
    IF ch = "A" THEN <<"a">>
    ELSE IF ch = "B" THEN <<"b">>
    ELSE IF ch = "U+0130" THEN <<"i", "U+0307">>
    ELSE <<ch>>

RECURSIVE Normalize(_)
\* normalize: punctuation becomes '.', then every character is lower-cased
Normalize(str) ==
    IF str = <<>>
    THEN <<>>
    ELSE ToLowercase(IF IsPunctuation(Head(str)) THEN "." ELSE Head(str))
             \o Normalize(Tail(str))

\* the characters handed to normalize in SpecNorm: every punctuation mark
\* of is_punctuation, the sentinel, a letter in both cases, and the letter
\* whose lower-case form is two characters, with its parts
NormChars == Punct \cup {" ", "a", "A", "U+0130", "i", "U+0307"}

\* Some(' ').into_iter().chain(t).chain(Some(' ').into_iter())
Wrap(t) == <<" ">> \o t \o <<" ">>

\* the insert calls main makes for one dictionary line with key t, in order
InsertsFor(t, label) ==
    IF name_only
    THEN <<[el |-> Wrap(t), value |-> [ty |-> "WholeWord", label |-> label]]>>
         \o (IF fuzzy
             THEN <<[el |-> Wrap(Normalize(t)),
                     value |-> [ty |-> "FuzzyWholeWord", label |-> label]]>>
             ELSE <<>>)
    ELSE <<[el |-> t, value |-> [ty |-> "Exact", label |-> label]]>>
         \o (IF fuzzy
             THEN <<[el |-> Normalize(t),
                     value |-> [ty |-> "Fuzzy", label |-> label]]>>
             ELSE <<>>)

RECURSIVE InsertAll(_, _)
InsertAll(tree, calls) ==
    IF calls = <<>>
    THEN tree
    ELSE InsertAll(Insert(tree, Head(calls).el, Head(calls).value), Tail(calls))

\* m.start - 1 and m.end - 1 on usize, in a build that wraps
UsizeSub(a, b) == (a - b) % (2 ^ UsizeBits)

\* the record println! writes for match m of a pass
Record(tree, m, strict) ==
    [start  |-> UsizeSub(m.start, 1),
     end    |-> UsizeSub(m.end, 1),
     seq    |-> m.seq,
     strict |-> strict,
     ty     |-> tree[m.node].value.v.ty,
     label  |-> tree[m.node].value.v.label]

\* the matches of both passes over line l, in the order main prints them
BothPasses(tree, l) ==
    LET first  == FindMatches(tree, Wrap(l))
        second == FindMatches(tree, Wrap(Normalize(l)))
    IN  [k \in 1..(Len(first) + Len(second)) |->
            IF k <= Len(first)
            THEN [m |-> first[k], strict |-> TRUE]
            ELSE [m |-> second[k - Len(first)], strict |-> FALSE]]

\* a build with overflow checks panics on m.start - 1 when m.start = 0
\* (m.end is at least 1): the index of the first such match, 0 if none
FirstOverflow(ms) ==
    IF \E k \in 1..Len(ms) : ms[k].m.start < 1
    THEN CHOOSE k \in 1..Len(ms) :
             /\ ms[k].m.start < 1
             /\ \A j \in 1..(k - 1) : ms[j].m.start >= 1
    ELSE 0

\* the records printed for line l: all of them, or those before the panic
Printed(tree, l, checks) ==
    LET ms == BothPasses(tree, l)
        stop == IF checks THEN FirstOverflow(ms) ELSE 0
        n == IF stop = 0 THEN Len(ms) ELSE stop - 1
    IN  [k \in 1..n |-> Record(tree, ms[k].m, ms[k].strict)]

Panics(tree, l, checks) == checks /\ FirstOverflow(BothPasses(tree, l)) # 0

----------------------------------------------------------------------------
(* Spec: the tree and one scan *)

Init ==
    /\ dict = <<SuffixTreeNew>>
    /\ log = <<>>
    /\ pc = "build"
    /\ input = <<>>
    /\ offset = 0
    /\ cands = <<>>
    /\ matches = <<>>
    /\ name_only = FALSE
    /\ fuzzy = FALSE
    /\ overflow_checks = FALSE
    /\ dict_lines = <<>>
    /\ line = <<>>
    /\ out = <<>>

\* a caller inserts el; each call carries a fresh value (its call number)
DoInsert ==
    /\ pc = "build"
    /\ Len(log) < MaxInserts
    /\ \E el \in SeqsUpTo(Symbols, MaxSeqLen) :
          /\ dict' = Insert(dict, el, Len(log) + 1)
          /\ log' = Append(log, [el |-> el, value |-> Len(log) + 1])
    /\ UNCHANGED <<pc, scanVars, mainVars>>

\* find_matches is entered with inp: both vectors start empty
StartScan ==
    /\ pc = "build"
    /\ \E inp \in SeqsUpTo(Symbols, MaxInputLen) :
          input' = inp
    /\ offset' = 0
    /\ cands' = <<>>
    /\ matches' = <<>>
    /\ pc' = "scan"
    /\ UNCHANGED <<dict, log, mainVars>>

\* mutant of ScanStep: the iterator is advanced a second time in the body
ScanStepSkip ==
    /\ pc = "scan"
    /\ offset < Len(input)
    /\ LET st == LoopBody(dict, [cands |-> cands, matches |-> matches],
                          offset, input[offset + 1])
       IN  /\ cands' = st.cands
           /\ matches' = st.matches
    /\ offset' = offset + 2
    /\ UNCHANGED <<dict, log, pc, input, mainVars>>

\* one iteration of the for loop
ScanStep ==
    /\ pc = "scan"
    /\ offset < Len(input)
    /\ LET st == LoopBody(dict, [cands |-> cands, matches |-> matches],
                          offset, input[offset + 1])
       IN  /\ cands' = st.cands
           /\ matches' = st.matches
    /\ offset' = offset + 1
    /\ UNCHANGED <<dict, log, pc, input, mainVars>>

\* the iterator is exhausted: find_matches returns matches
ScanReturn ==
    /\ pc = "scan"
    /\ offset = Len(input)
    /\ pc' = "done"
    /\ UNCHANGED <<dict, log, scanVars, mainVars>>

Next == DoInsert \/ StartScan \/ ScanStep \/ ScanReturn

Spec == Init /\ [][Next]_vars

\* find_matches is a sequential loop that nothing suspends: once entered,
\* its next iteration and its return are taken; the callers' steps
\* (DoInsert, StartScan) carry no fairness
SpecFair == Spec /\ WF_vars(ScanStep) /\ WF_vars(ScanReturn)

----------------------------------------------------------------------------
(* SpecMain: main *)

InitMain ==
    /\ dict = <<SuffixTreeNew>>
    /\ log = <<>>
    /\ pc = "dict"
    /\ input = <<>>
    /\ offset = 0
    /\ cands = <<>>
    /\ matches = <<>>
    /\ name_only \in BOOLEAN
    /\ fuzzy \in BOOLEAN
    /\ overflow_checks \in BOOLEAN
    /\ dict_lines = <<>>
    /\ line = <<>>
    /\ out = <<>>

\* a dictionary line that splits in two parts: label, tab, key; the label
\* of the n-th line is n
ReadEntry ==
    /\ pc = "dict"
    /\ Len(dict_lines) < MaxEntries
    /\ \E t \in SeqsUpTo(Chars, MaxKeyLen) :
          LET label == Len(dict_lines) + 1
              calls == InsertsFor(t, label)
          IN  /\ dict' = InsertAll(dict, calls)
              /\ log' = log \o calls
              /\ dict_lines' = Append(dict_lines,
                                      [parts |-> 2, label |-> label, key |-> t])
    /\ UNCHANGED <<pc, scanVars, name_only, fuzzy, overflow_checks, line, out>>

\* a dictionary line without a tab: the `_ => {}` arm
SkipLine ==
    /\ pc = "dict"
    /\ Len(dict_lines) < MaxEntries
    /\ dict_lines' = Append(dict_lines, [parts |-> 1])
    /\ UNCHANGED <<dict, log, pc, scanVars, name_only, fuzzy, overflow_checks, line, out>>

\* the dictionary file ends; main turns to stdin
DictEof ==
    /\ pc = "dict"
    /\ pc' = "lines"
    /\ UNCHANGED <<dict, log, scanVars, mainVars>>

\* one iteration of the stdin loop: both passes over the line and their
\* records, or the panic that ends the program
TagLine ==
    /\ pc = "lines"
    /\ \E l \in SeqsUpTo(Chars, MaxLineLen) :
          /\ line' = l
          /\ out' = Printed(dict, l, overflow_checks)
          /\ pc' = IF Panics(dict, l, overflow_checks) THEN "panicked" ELSE "tagged"
    /\ UNCHANGED <<dict, log, scanVars, name_only, fuzzy, overflow_checks, dict_lines>>

\* the next stdin line is awaited
NextLine ==
    /\ pc = "tagged"
    /\ pc' = "lines"
    /\ line' = <<>>
    /\ out' = <<>>
    /\ UNCHANGED <<dict, log, scanVars, name_only, fuzzy, overflow_checks, dict_lines>>

NextMain == ReadEntry \/ SkipLine \/ DictEof \/ TagLine \/ NextLine

SpecMain == InitMain /\ [][NextMain]_vars

----------------------------------------------------------------------------
(* SpecNorm: normalize applied to one string *)

InitNorm ==
    /\ dict = <<SuffixTreeNew>>
    /\ log = <<>>
    /\ pc = "norm_in"
    /\ input = <<>>
    /\ offset = 0
    /\ cands = <<>>
    /\ matches = <<>>
    /\ name_only = FALSE
    /\ fuzzy = FALSE
    /\ overflow_checks = FALSE
    /\ dict_lines = <<>>
    /\ line \in SeqsUpTo(NormChars, MaxNormLen)
    /\ out = <<>>

\* normalize(line.chars()), collected
ApplyNormalize ==
    /\ pc = "norm_in"
    /\ out' = Normalize(line)
    /\ pc' = "norm_out"
    /\ UNCHANGED <<dict, log, scanVars, name_only, fuzzy, overflow_checks,
                   dict_lines, line>>

NextNorm == ApplyNormalize

SpecNorm == InitNorm /\ [][NextNorm]_vars

----------------------------------------------------------------------------
(* Reading the tree and the scan's input *)

RECURSIVE Walk(_, _, _)
\* the node reached from node n by path p, 0 if some edge is missing
Walk(tree, n, p) ==
    IF p = <<>>
    THEN n
    ELSE IF Head(p) \in DOMAIN tree[n].suffixes
         THEN Walk(tree, tree[n].suffixes[Head(p)], Tail(p))
         ELSE 0

\* p spells a terminal path of the tree
Spells(tree, p) == Walk(tree, Root, p) # 0 /\ IsTerminal(tree[Walk(tree, Root, p)])

\* the symbols of s at positions [b, e), offsets counted from 0
Span(s, b, e) == SubSeq(s, b + 1, e)

\* seq el occurs in s at offset i
OccursAt(el, s, i) ==
    /\ i + Len(el) <= Len(s)
    /\ Span(s, i, i + Len(el)) = el

\* some emitted match has this start and end
Emitted(ms, b, e) == \E m \in 1..Len(ms) : ms[m].start = b /\ ms[m].end = e

\* the insert calls made at exactly path p, as indices of log
CallsAt(p) == {k \in 1..Len(log) : log[k].el = p}

IsPrefix(p, q) == Len(p) <= Len(q) /\ SubSeq(q, 1, Len(p)) = p

----------------------------------------------------------------------------
(* Claims settled against Spec *)

\* C1 (as stated): every sequence E inserted into the trie, the empty one
\* included, is reported by find_matches at every offset i where the input
\* contains it, with start = i and end = i + len(E).
C1_AsStated ==
    pc = "done" =>
        \A k \in 1..Len(log) : \A i \in 0..Len(input) :
            OccursAt(log[k].el, input, i)
                => Emitted(matches, i, i + Len(log[k].el))

\* C1 (amended): no false negatives for non-empty sequences: every non-empty
\* sequence E inserted into the trie is reported at every offset i where the
\* input contains it, with start = i and end = i + len(E), whatever else the
\* trie holds.
C1_NoFalseNegatives ==
    pc = "done" =>
        \A k \in 1..Len(log) : \A i \in 0..Len(input) :
            (log[k].el # <<>> /\ OccursAt(log[k].el, input, i))
                => Emitted(matches, i, i + Len(log[k].el))

\* C1 witness: a scan has returned over an input that holds a non-empty
\* inserted sequence past its first position, in a trie with another entry.
C1_Witness ==
    /\ pc = "done"
    /\ Len(log) = 2
    /\ log[1].el # log[2].el
    /\ log[1].el # <<>>
    /\ \E i \in 1..Len(input) : OccursAt(log[1].el, input, i)

\* C6 (as stated): every pair of spans [s1,e1), [s2,e2) of the input that
\* each spell a terminal path are both emitted, empty spans included.
C6_AsStated ==
    pc = "done" =>
        \A s1 \in 0..Len(input), s2 \in 0..Len(input) :
        \A e1 \in s1..Len(input), e2 \in s2..Len(input) :
            (Spells(dict, Span(input, s1, e1)) /\ Spells(dict, Span(input, s2, e2)))
                => (Emitted(matches, s1, e1) /\ Emitted(matches, s2, e2))

\* C6 (amended): overlap preservation: every pair of non-empty spans
\* [s1,e1), [s2,e2) of the input that each spell a terminal path
\* (overlapping, nested or sharing a start) are both emitted; no
\* longest-match or first-match choice is made.
C6_OverlapPreserved ==
    pc = "done" =>
        \A s1 \in 0..Len(input), s2 \in 0..Len(input) :
        \A e1 \in (s1 + 1)..Len(input), e2 \in (s2 + 1)..Len(input) :
            (Spells(dict, Span(input, s1, e1)) /\ Spells(dict, Span(input, s2, e2)))
                => (Emitted(matches, s1, e1) /\ Emitted(matches, s2, e2))

\* C6 witness: a finished scan whose input has two terminal spans sharing a
\* start, one nested in the other, and a third overlapping span that starts
\* inside them.
C6_Witness ==
    /\ pc = "done"
    /\ \E s \in 0..Len(input) : \E e1 \in (s + 1)..Len(input) :
       \E e2 \in (e1 + 1)..Len(input) :
          /\ Spells(dict, Span(input, s, e1))
          /\ Spells(dict, Span(input, s, e2))
          /\ \E s3 \in (s + 1)..(e2 - 1) : \E e3 \in (s3 + 1)..Len(input) :
                Spells(dict, Span(input, s3, e3))

\* C7 (as stated): after insert(S, V) into an empty trie, for any S, the
\* empty one included, find_matches over exactly S emits exactly one match,
\* with start = 0, end = len(S) and value V.
C7_AsStated ==
    (pc = "done" /\ Len(log) = 1 /\ input = log[1].el) =>
        /\ Len(matches) = 1
        /\ matches[1].start = 0
        /\ matches[1].end = Len(input)
        /\ dict[matches[1].node].value = Some(log[1].value)

\* C7 (amended): insertion/lookup round trip for non-empty sequences: after
\* insert(S, V) of a non-empty S into an empty trie, find_matches over
\* exactly S emits exactly one match, with start = 0, end = len(S) and
\* value V.
C7_RoundTrip ==
    (pc = "done" /\ Len(log) = 1 /\ input = log[1].el /\ input # <<>>) =>
        /\ Len(matches) = 1
        /\ matches[1].start = 0
        /\ matches[1].end = Len(input)
        /\ dict[matches[1].node].value = Some(log[1].value)

\* C7 witness: the scan of a sequence of length MaxSeqLen that is the only
\* entry of the trie has returned.
C7_Witness ==
    /\ pc = "done"
    /\ Len(log) = 1
    /\ input = log[1].el
    /\ Len(input) = MaxSeqLen

\* C8: after any sequence of insert calls every prefix of every inserted
\* sequence is reachable from the root, the node of an inserted sequence is
\* terminal with the value of the most recent insert at exactly that path,
\* and a path nobody inserted at has no value (an insert changes the value
\* and terminal status of its own path only).
C8_InsertPostcondition ==
    \A p \in SeqsUpTo(Symbols, MaxSeqLen) :
        LET n == Walk(dict, Root, p)
            calls == CallsAt(p)
        IN  /\ (\E k \in 1..Len(log) : IsPrefix(p, log[k].el)) => n # 0
            /\ calls # {} =>
                   /\ n # 0
                   /\ dict[n].value =
                          Some(log[CHOOSE k \in calls : \A j \in calls : j <= k].value)
            /\ (calls = {} /\ n # 0) => dict[n].value = None

\* C8 witness: a non-empty path has been inserted twice, with two values.
C8_Witness ==
    /\ Len(log) = 2
    /\ log[1].el = log[2].el
    /\ log[1].el # <<>>
    /\ log[1].value # log[2].value

\* C9: within one find_matches pass the emitted matches are non-decreasing
\* in end offset, and matches with the same end offset appear in increasing
\* start offset.
C9_EmissionOrder ==
    \A i \in 1..Len(matches) : \A j \in (i + 1)..Len(matches) :
        /\ matches[i].end <= matches[j].end
        /\ matches[i].end = matches[j].end => matches[i].start < matches[j].start

\* C9 witness: a pass has emitted two matches with the same end offset and
\* one with a later end offset.
C9_Witness ==
    \E i \in 1..Len(matches) : \E j \in 1..Len(matches) : \E k \in 1..Len(matches) :
        /\ i < j
        /\ matches[i].end = matches[j].end
        /\ matches[j].end < matches[k].end

\* the index in log of the most recent insert call at path p
LastCallAt(p) == CHOOSE k \in CallsAt(p) : \A j \in CallsAt(p) : j <= k

\* the length of the longest sequence inserted so far, 0 if none
Longest ==
    IF log = <<>>
    THEN 0
    ELSE CHOOSE n \in {Len(log[k].el) : k \in 1..Len(log)} :
             \A k \in 1..Len(log) : Len(log[k].el) <= n

\* C14: soundness of the scan: a match is emitted for span [s,e) only if
\* input[s..e) is exactly a sequence that was inserted, its node is the node
\* of that path, and it carries the value currently stored there (that of
\* the most recent insert); so a span that is only a proper prefix of
\* inserted sequences yields no match.
C14_ScanSound ==
    \A m \in 1..Len(matches) :
        LET p == Span(input, matches[m].start, matches[m].end)
        IN  /\ matches[m].start < matches[m].end
            /\ matches[m].end <= Len(input)
            /\ CallsAt(p) # {}
            /\ matches[m].node = Walk(dict, Root, p)
            /\ dict[matches[m].node].value = Some(log[LastCallAt(p)].value)

\* C14 witness: a finished scan has emitted a match, and its input holds a
\* span that is a proper prefix of an inserted sequence, was not inserted
\* itself, and got no match.
C14_Witness ==
    /\ pc = "done"
    /\ matches # <<>>
    /\ \E s \in 0..Len(input) : \E e \in (s + 1)..Len(input) :
          /\ CallsAt(Span(input, s, e)) = {}
          /\ \E k \in 1..Len(log) :
                /\ IsPrefix(Span(input, s, e), log[k].el)
                /\ Len(log[k].el) > e - s
          /\ ~Emitted(matches, s, e)

\* C15: no backtracking after pruning: once the candidate spawned at start
\* s fails to advance at offset o (input[s..o+1) is no path of the trie) it
\* is not live any more and no match with start s is emitted at offset o or
\* later.
C15_NoBacktracking ==
    \A s \in 0..(offset - 1) : \A o \in s..(offset - 1) :
        Walk(dict, Root, Span(input, s, o + 1)) = 0 =>
            /\ \A c \in 1..Len(cands) : cands[c].start # s
            /\ \A m \in 1..Len(matches) :
                  matches[m].start = s => matches[m].end <= o

\* C15 witness: a candidate advanced, produced a match, then failed to
\* advance at an offset that is not the last of the input, and the scan
\* has returned.
C15_Witness ==
    /\ pc = "done"
    /\ \E s \in 0..Len(input) : \E o \in (s + 1)..(Len(input) - 2) :
          /\ Walk(dict, Root, Span(input, s, o)) # 0
          /\ Walk(dict, Root, Span(input, s, o + 1)) = 0
          /\ \E m \in 1..Len(matches) :
                matches[m].start = s /\ matches[m].end <= o

\* C17: path invariant of the scan: after processing offset o every live
\* candidate with start s has the cursor path input[s..o+1) and sits at the
\* node that path reaches; every emitted match has seq = input[start..end)
\* and end - start = len(seq) >= 1, so no zero-length match is emitted even
\* if the root is terminal.
C17_PathInvariant ==
    /\ \A c \in 1..Len(cands) :
          /\ cands[c].start < offset
          /\ cands[c].cursor.path = Span(input, cands[c].start, offset)
          /\ cands[c].cursor.cursor = Walk(dict, Root, cands[c].cursor.path)
          /\ cands[c].cursor.cursor # 0
    /\ \A m \in 1..Len(matches) :
          /\ matches[m].seq = Span(input, matches[m].start, matches[m].end)
          /\ matches[m].end - matches[m].start = Len(matches[m].seq)
          /\ Len(matches[m].seq) >= 1

\* C17 witness: the root is terminal, two candidates are live after the
\* second symbol or later, and a match has been emitted.
C17_Witness ==
    /\ IsTerminal(dict[Root])
    /\ offset >= 2
    /\ Len(cands) >= 2
    /\ matches # <<>>

\* C18: live-set bound: at every step of a scan the live candidates have
\* pairwise distinct start offsets in increasing order, and after
\* processing offset o (offset = o + 1) there are at most
\* min(o + 1, length of the longest inserted sequence) of them.
C18_LiveSetBound ==
    /\ \A i \in 1..Len(cands) : \A j \in (i + 1)..Len(cands) :
          cands[i].start < cands[j].start
    /\ Len(cands) <= offset
    /\ Len(cands) <= Longest

\* C18 witness: as many candidates are live as the longest inserted
\* sequence is long, fewer than the symbols processed.
C18_Witness ==
    /\ Longest = MaxSeqLen
    /\ Len(cands) = Longest
    /\ offset > Longest

----------------------------------------------------------------------------
(* Claims settled against SpecMain *)

\* the dictionary lines that split in two parts
Entries == {k \in 1..Len(dict_lines) : dict_lines[k].parts = 2}

\* the loop body has run on `line`
Tagged == pc \in {"tagged", "panicked"}

\* the records of out with this start and end
RecordsAt(b, e) == {r \in 1..Len(out) : out[r].start = b /\ out[r].end = e}

\* C2: with whole-word off and fuzzy off the records of a line are exactly
\* the occurrences of dictionary keys in the line, one record per
\* occurrence, each tagged Exact with the label of an entry with that key,
\* and none of them comes from the scan of the normalized line.
C2_AsStated ==
    (Tagged /\ ~name_only /\ ~fuzzy) =>
        /\ \A r \in 1..Len(out) :
              /\ out[r].strict
              /\ out[r].ty = "Exact"
              /\ \E k \in Entries :
                    /\ dict_lines[k].key = out[r].seq
                    /\ dict_lines[k].label = out[r].label
                    /\ OccursAt(out[r].seq, line, out[r].start)
                    /\ out[r].end = out[r].start + Len(out[r].seq)
        /\ \A k \in Entries : \A i \in 0..Len(line) :
              (dict_lines[k].key # <<>> /\ OccursAt(dict_lines[k].key, line, i))
                  => Cardinality(RecordsAt(i, i + Len(dict_lines[k].key))) = 1

\* key occurs in l at offset i between a space or the start of the line and
\* a space or the end of the line
BoundedAt(key, l, i) ==
    /\ OccursAt(key, l, i)
    /\ (i = 0 \/ l[i] = " ")
    /\ (i + Len(key) = Len(l) \/ l[i + Len(key) + 1] = " ")

\* C3: with whole-word enabled a dictionary entry yields a WholeWord match
\* exactly at its occurrences that lie between a space or the start of the
\* line and a space or the end of the line (the match of the occurrence at
\* offset i is the record for the wrapped key that ends one past it).
C3_AsStated ==
    (Tagged /\ name_only) =>
        \A k \in Entries : \A i \in 0..Len(line) :
            BoundedAt(dict_lines[k].key, line, i)
            <=> \E r \in 1..Len(out) :
                    /\ out[r].ty = "WholeWord"
                    /\ out[r].seq = Wrap(dict_lines[k].key)
                    /\ out[r].end = i + Len(dict_lines[k].key) + 1

\* C4: every record printed for a line has 0 <= start <= end <= length of
\* the line, and no subtraction goes below zero, in every configuration.
C4_AsStated ==
    Tagged =>
        /\ pc # "panicked"
        /\ \A r \in 1..Len(out) :
              /\ 0 <= out[r].start
              /\ out[r].start <= out[r].end
              /\ out[r].end <= Len(line)

\* C5: with fuzzy enabled, for every record of the strict pass the fuzzy
\* pass prints a record over the same span for the same dictionary label.
C5_AsStated ==
    (Tagged /\ fuzzy) =>
        \A r \in 1..Len(out) :
            out[r].strict =>
                \E q \in 1..Len(out) :
                    /\ ~out[q].strict
                    /\ out[q].start = out[r].start
                    /\ out[q].end = out[r].end
                    /\ out[q].label = out[r].label

\* C10: whenever the wrapped raw line and the wrapped normalized line both
\* spell a terminal path over the same span, two records are printed for
\* that span, one with strict = true and one with strict = false.
C10_AsStated ==
    Tagged =>
        \A s \in 0..(Len(line) + 2) : \A e \in (s + 1)..(Len(line) + 2) :
            (/\ Spells(dict, Span(Wrap(line), s, e))
             /\ Spells(dict, Span(Wrap(Normalize(line)), s, e)))
            => \E r \in RecordsAt(UsizeSub(s, 1), e - 1) :
               \E q \in RecordsAt(UsizeSub(s, 1), e - 1) :
                    out[r].strict /\ ~out[q].strict

\* C13: dictionary construction never writes two different values at an
\* identical trie path: of the insert calls main makes for a dictionary, no
\* two that carry different values go to the same path.
C13_AsStated ==
    \A j \in 1..Len(log) : \A k \in (j + 1)..Len(log) :
        log[j].el = log[k].el => log[j].value = log[k].value

\* C16: fuzzy completeness: with fuzzy enabled and whole-word off, for
\* every dictionary key E and line L such that normalize(E) occurs in
\* normalize(L) at offset i, the fuzzy pass prints a record with start = i
\* and end = i + len(normalize(E)).
C16_AsStated ==
    (Tagged /\ fuzzy /\ ~name_only) =>
        \A k \in Entries : \A i \in 0..Len(Normalize(line)) :
            OccursAt(Normalize(dict_lines[k].key), Normalize(line), i) =>
                \E r \in RecordsAt(i, i + Len(Normalize(dict_lines[k].key))) :
                    ~out[r].strict

----------------------------------------------------------------------------
(* Claims settled against SpecFair *)

\* C12: a find_matches scan of a finite input always terminates: every
\* step of the scan consumes exactly one input symbol, a scan once entered
\* reaches its final state, and it does so after len(input) steps.
C12_ScanTerminates ==
    /\ (pc = "scan") ~> (pc = "done")
    /\ [][(pc = "scan" /\ pc' = "scan") => offset' = offset + 1]_vars
    /\ [](pc = "done" => offset = Len(input))

\* C12 witness: the scan of an input of full length over a tree with two
\* entries has returned, with candidates still live.
C12_Witness ==
    /\ pc = "done"
    /\ Len(input) = MaxInputLen
    /\ Len(log) = 2
    /\ cands # <<>>

----------------------------------------------------------------------------
(* Claims settled against SpecNorm *)

\* C11: normalization is idempotent: for every symbol and every symbol
\* sequence x, normalize(normalize(x)) = normalize(x).
C11_NormalizeIdempotent ==
    pc = "norm_out" => Normalize(out) = out

\* C11 witness: normalize has been applied to a string it changes in both
\* ways, a punctuation mark other than '.' and a letter that is not in
\* lower case.
C11_Witness ==
    /\ pc = "norm_out"
    /\ Len(line) = 2
    /\ \E i \in 1..2 : IsPunctuation(line[i]) /\ line[i] # "."
    /\ \E i \in 1..2 : ToLowercase(line[i]) # <<line[i]>>
    /\ out # line

====
